---- MODULE Spec2Model ----
(***************************************************************************)
(* Model of the Database facade of MaDatabase (src/src/index.ts): the      *)
(* table registry `models`, the connection flag `isConnected`, and every   *)
(* public operation, with the storage engine (Sequelize) as a collaborator *)
(* whose asynchronous calls succeed or fail nondeterministically.          *)
(***************************************************************************)
EXTENDS Integers, Sequences, FiniteSets, TLC

(***************************************************************************)
(* Bounds                                                                  *)
(***************************************************************************)
\* At most this many tables are registered (define calls made) in a run.
MaxTables == 2

(***************************************************************************)
(* JavaScript values                                                       *)
(***************************************************************************)
Undefined == [kind |-> "undefined"]
Null == [kind |-> "null"]
Bool(b) == [kind |-> "boolean", b |-> b]
Arr(items) == [kind |-> "array", items |-> items]
NoError == [kind |-> "none"]

\* Table names whose spelling is a canonical array index ("1", "2"): a plain
\* JavaScript object enumerates such keys first, in ascending numeric order.
IndexNames == {"1", "2"}
IndexValue(n) == CASE n = "1" -> 1 [] n = "2" -> 2 [] OTHER -> 0
\* Ordinary table names.
WordNames == {"User"}
\* Property names every object literal inherits from Object.prototype.
ProtoNames == {"constructor"}
TableNames == IndexNames \cup WordNames \cup ProtoNames

\* String.prototype.toLowerCase on the names of the model.
ToLowerCase(str) == CASE str = "User" -> "user" [] OTHER -> str

\* The value found on Object.prototype under an inherited name: for
\* "constructor" the built-in function Object.
ProtoValue(name) == [kind |-> "builtin", name |-> name]

(***************************************************************************)
(* Schemas and options                                                     *)
(***************************************************************************)
SystemFields == {"id", "createdAt", "updatedAt"}
\* The three system descriptors of createTable's defaultSchema literal.
SystemDefaults ==
  [f \in SystemFields |->
     IF f = "id" THEN "INTEGER primaryKey autoIncrement" ELSE "DATE defaultValue NOW"]
\* The caller's schemas: a map from field names to the caller's descriptor.
SchemaDomains == {{"username"}, {"id", "createdAt", "username"}}
Schemas == UNION {[d -> {"STRING"}] : d \in SchemaDomains}
\* The caller's options objects: {} and {tableName: "custom"}.
EmptyObject == [k \in {} |-> ""]
OptionsSet == {EmptyObject, [tableName |-> "custom"]}

\* Object spread {...a, ...b}: the keys of both, b's value on a collision.
Spread(a, b) ==
  [k \in (DOMAIN a) \cup (DOMAIN b) |-> IF k \in DOMAIN b THEN b[k] ELSE a[k]]

(***************************************************************************)
(* The storage engine                                                      *)
(***************************************************************************)
EngineErrors == {"SequelizeDatabaseError"}
\* What an asynchronous engine call does: resolve, or reject with an error.
OkResponse == [ok |-> TRUE, error |-> NoError]
EngineResponses ==
  {OkResponse}
    \cup {[ok |-> FALSE, error |-> [kind |-> "EngineError", name |-> e]] : e \in EngineErrors}
\* The value a successful engine call resolves to.
EngineValue(method) == [kind |-> "engineValue", method |-> method]

\* sequelize.define(modelName, attributes, options): a new model class. The
\* n-th define call yields the handle with identity n.
Define(n, modelName, attributes, options) ==
  [kind |-> "model", id |-> n, modelName |-> modelName,
   rawAttributes |-> attributes, options |-> options, associations |-> EmptyObject]
\* The receivers of engine calls: the Sequelize instance, or a model class.
SequelizeTarget == [kind |-> "sequelize"]
ModelTarget(handle) == [kind |-> "model", id |-> handle.id]
DefineCall(modelName, attributes, options) ==
  [target |-> SequelizeTarget, method |-> "define", modelName |-> modelName,
   attributes |-> attributes, options |-> options]
EngineCall(target, method) == [target |-> target, method |-> method]

(***************************************************************************)
(* State                                                                   *)
(***************************************************************************)
VARIABLES
  models,       \* this.models: own property name -> handle
  keys,         \* the own property names of this.models in creation order
  isConnected,  \* this.isConnected
  defineCount,  \* number of sequelize.define calls made so far
  firstCall,    \* history: name -> schema and result of its first createTable
  last,         \* the last operation: its inputs and what the caller observed
  rows,         \* the engine's tables: storage name -> sequence of rows
  pending       \* caller -> the call it is suspended in at an await, if any

vars == <<models, keys, isConnected, defineCount, firstCall, last, rows, pending>>

\* The fields of `this`, as one record handed to the step operators.
This == [models |-> models, keys |-> keys, isConnected |-> isConnected,
         defineCount |-> defineCount]

\* Property read this.models[name] on the object literal {} of the
\* constructor: the own property, else the one inherited from Object.prototype.
Get(m, name) ==
  IF name \in DOMAIN m THEN m[name]
  ELSE IF name \in ProtoNames THEN ProtoValue(name)
  ELSE Undefined
\* JavaScript truthiness of the values stored in or read from this.models.
Truthy(v) == v.kind \notin {"undefined", "null"}

\* Property write this.models[name] = handle.
Put(m, name, handle) ==
  [k \in (DOMAIN m) \cup {name} |-> IF k = name THEN handle ELSE m[k]]
PutKey(ks, m, name) == IF name \in DOMAIN m THEN ks ELSE Append(ks, name)

\* What the caller observes of one call.
Return(v, calls, diags) ==
  [outcome |-> "return", value |-> v, error |-> NoError, calls |-> calls, diags |-> diags]
Throw(e, calls, diags) ==
  [outcome |-> "throw", value |-> Undefined, error |-> e, calls |-> calls, diags |-> diags]
\* A step: the fields of `this` after the call, and what the caller observed.
Step(s, ret) == [models |-> s.models, keys |-> s.keys, isConnected |-> s.isConnected,
                 defineCount |-> s.defineCount, ret |-> ret]

TableNotFound(tableName) == [kind |-> "Error", message |-> "Table not found", table |-> tableName]
NotAFunction(method) == [kind |-> "TypeError", message |-> "not a function", method |-> method]

(***************************************************************************)
(* connect                                                                 *)
(***************************************************************************)
\* Mutant of ConnectStep: the catch block rethrows instead of returning false.
ConnectStep_Rethrow(s, resp) ==
  LET calls == <<EngineCall(SequelizeTarget, "authenticate")>> IN
  IF resp.ok
  THEN [Step(s, Return(Bool(TRUE), calls, 0)) EXCEPT !.isConnected = TRUE]
  ELSE Step(s, Throw(resp.error, calls, 1))

ConnectStep(s, resp) ==
  LET calls == <<EngineCall(SequelizeTarget, "authenticate")>> IN
  IF resp.ok
  THEN [Step(s, Return(Bool(TRUE), calls, 0)) EXCEPT !.isConnected = TRUE]
  ELSE Step(s, Return(Bool(FALSE), calls, 1))

(***************************************************************************)
(* createTable                                                             *)
(***************************************************************************)
\* Mutant of MergeSchema: the spread written the other way round, so that the
\* system descriptors win a name collision.
MergeSchema_DefaultsWin(schema) == Spread(schema, SystemDefaults)
\* The defaultSchema literal: the system fields, then ...schema.
MergeSchema(schema) == Spread(SystemDefaults, schema)
\* Mutant of MergeOptions: the default storage name is the table name as
\* given, without toLowerCase().
MergeOptions_AsGiven(tableName, options) ==
  Spread([tableName |-> tableName], options)
\* The options literal: {tableName: tableName.toLowerCase(), ...options}.
MergeOptions(tableName, options) ==
  Spread([tableName |-> ToLowerCase(tableName)], options)

\* Mutant of CreateTableStep: the already-defined check is missing, so every
\* call defines and stores a new handle.
CreateTableStep_AlwaysDefine(s, tableName, schema, options) ==
  LET defaultSchema == MergeSchema(schema)
      defineOptions == MergeOptions(tableName, options)
      handle == Define(s.defineCount + 1, tableName, defaultSchema, defineOptions)
      m2 == Put(s.models, tableName, handle)
  IN [models |-> m2,
      keys |-> PutKey(s.keys, s.models, tableName),
      isConnected |-> s.isConnected,
      defineCount |-> s.defineCount + 1,
      ret |-> Return(Get(m2, tableName),
                     <<DefineCall(tableName, defaultSchema, defineOptions)>>, 0)]

\* Mutant of CreateTableStep: get-or-create written as create-then-look-up, so
\* a call on a registered name defines once more and returns the new handle
\* without storing it.
CreateTableStep_Redefine(s, tableName, schema, options) ==
  LET defaultSchema == MergeSchema(schema)
      defineOptions == MergeOptions(tableName, options)
      handle == Define(s.defineCount + 1, tableName, defaultSchema, defineOptions)
      calls == <<DefineCall(tableName, defaultSchema, defineOptions)>>
  IN IF Truthy(Get(s.models, tableName))
     THEN [Step(s, Return(handle, calls, 0)) EXCEPT !.defineCount = s.defineCount + 1]
     ELSE [models |-> Put(s.models, tableName, handle),
           keys |-> PutKey(s.keys, s.models, tableName),
           isConnected |-> s.isConnected,
           defineCount |-> s.defineCount + 1,
           ret |-> Return(handle, calls, 0)]

CreateTableStep(s, tableName, schema, options) ==
  IF Truthy(Get(s.models, tableName))
  THEN Step(s, Return(Get(s.models, tableName), <<>>, 0))
  ELSE
    LET defaultSchema == MergeSchema(schema)
        defineOptions == MergeOptions(tableName, options)
        handle == Define(s.defineCount + 1, tableName, defaultSchema, defineOptions)
        m2 == Put(s.models, tableName, handle)
    IN [models |-> m2,
        keys |-> PutKey(s.keys, s.models, tableName),
        isConnected |-> s.isConnected,
        defineCount |-> s.defineCount + 1,
        ret |-> Return(Get(m2, tableName),
                       <<DefineCall(tableName, defaultSchema, defineOptions)>>, 0)]

(***************************************************************************)
(* syncTables, close                                                       *)
(***************************************************************************)
\* Mutant of SyncTablesStep: the catch block rethrows instead of returning false.
SyncTablesStep_Rethrow(s, force, resp) ==
  LET calls == <<EngineCall(SequelizeTarget, "sync")>> IN
  IF resp.ok
  THEN Step(s, Return(Bool(TRUE), calls, 0))
  ELSE Step(s, Throw(resp.error, calls, 1))

SyncTablesStep(s, force, resp) ==
  LET calls == <<EngineCall(SequelizeTarget, "sync")>> IN
  IF resp.ok
  THEN Step(s, Return(Bool(TRUE), calls, 0))
  ELSE Step(s, Return(Bool(FALSE), calls, 1))

\* Mutant of CloseStep: a successful close also empties this.models.
CloseStep_ClearsModels(s, resp) ==
  LET calls == <<EngineCall(SequelizeTarget, "close")>> IN
  IF resp.ok
  THEN [Step(s, Return(Undefined, calls, 0))
          EXCEPT !.isConnected = FALSE, !.models = EmptyObject, !.keys = <<>>]
  ELSE Step(s, Return(Undefined, calls, 1))

\* Mutant of CloseStep: the assignment this.isConnected = false is missing.
CloseStep_KeepConnected(s, resp) ==
  LET calls == <<EngineCall(SequelizeTarget, "close")>> IN
  IF resp.ok
  THEN Step(s, Return(Undefined, calls, 0))
  ELSE Step(s, Return(Undefined, calls, 1))

CloseStep(s, resp) ==
  LET calls == <<EngineCall(SequelizeTarget, "close")>> IN
  IF resp.ok
  THEN [Step(s, Return(Undefined, calls, 0)) EXCEPT !.isConnected = FALSE]
  ELSE Step(s, Return(Undefined, calls, 1))

(***************************************************************************)
(* CRUD operations                                                         *)
(***************************************************************************)
\* The JavaScript call target.method(...) inside a try block, target being
\* whatever this.models[tableName] holds. A model class forwards the call to
\* the engine. The built-in Object has a static method create (Object.create
\* builds a plain object and calls no engine) and none of the other methods,
\* so calling them raises a TypeError.
Invoke(target, method, resp) ==
  IF target.kind = "model"
  THEN [ok |-> resp.ok,
        value |-> IF resp.ok THEN EngineValue(method) ELSE Undefined,
        error |-> resp.error,
        calls |-> <<EngineCall(ModelTarget(target), method)>>]
  ELSE IF target.name = "constructor" /\ method = "create"
  THEN [ok |-> TRUE, value |-> [kind |-> "object"], error |-> NoError, calls |-> <<>>]
  ELSE [ok |-> FALSE, value |-> Undefined, error |-> NotAFunction(method), calls |-> <<>>]

\* Mutant of TryCatchRethrow: the catch block throws a new error of its own
\* instead of the one it caught.
TryCatchRethrow_Wrap(s, r) ==
  IF r.ok
  THEN Step(s, Return(r.value, r.calls, 0))
  ELSE Step(s, Throw([kind |-> "Error", message |-> "operation failed"], r.calls, 1))

\* try { return await call } catch (error) { console.error(...); throw error }
TryCatchRethrow(s, r) ==
  IF r.ok
  THEN Step(s, Return(r.value, r.calls, 0))
  ELSE Step(s, Throw(r.error, r.calls, 1))

\* Mutant of InsertStep: the call is refused while this.isConnected is false.
InsertStep_RequireConnected(s, tableName, resp) ==
  IF ~Truthy(Get(s.models, tableName))
  THEN Step(s, Throw(TableNotFound(tableName), <<>>, 0))
  ELSE IF ~s.isConnected
  THEN Step(s, Throw([kind |-> "Error", message |-> "Not connected"], <<>>, 0))
  ELSE TryCatchRethrow(s, Invoke(Get(s.models, tableName), "create", resp))

InsertStep(s, tableName, resp) ==
  IF ~Truthy(Get(s.models, tableName))
  THEN Step(s, Throw(TableNotFound(tableName), <<>>, 0))
  ELSE TryCatchRethrow(s, Invoke(Get(s.models, tableName), "create", resp))

InsertManyStep(s, tableName, resp) ==
  IF ~Truthy(Get(s.models, tableName))
  THEN Step(s, Throw(TableNotFound(tableName), <<>>, 0))
  ELSE TryCatchRethrow(s, Invoke(Get(s.models, tableName), "bulkCreate", resp))

FindStep(s, tableName, resp) ==
  IF ~Truthy(Get(s.models, tableName))
  THEN Step(s, Throw(TableNotFound(tableName), <<>>, 0))
  ELSE TryCatchRethrow(s, Invoke(Get(s.models, tableName), "findAll", resp))

FindOneStep(s, tableName, resp) ==
  IF ~Truthy(Get(s.models, tableName))
  THEN Step(s, Throw(TableNotFound(tableName), <<>>, 0))
  ELSE TryCatchRethrow(s, Invoke(Get(s.models, tableName), "findOne", resp))

FindByIdStep(s, tableName, resp) ==
  IF ~Truthy(Get(s.models, tableName))
  THEN Step(s, Throw(TableNotFound(tableName), <<>>, 0))
  ELSE TryCatchRethrow(s, Invoke(Get(s.models, tableName), "findByPk", resp))

UpdateStep(s, tableName, resp) ==
  IF ~Truthy(Get(s.models, tableName))
  THEN Step(s, Throw(TableNotFound(tableName), <<>>, 0))
  ELSE TryCatchRethrow(s, Invoke(Get(s.models, tableName), "update", resp))

DeleteStep(s, tableName, resp) ==
  IF ~Truthy(Get(s.models, tableName))
  THEN Step(s, Throw(TableNotFound(tableName), <<>>, 0))
  ELSE TryCatchRethrow(s, Invoke(Get(s.models, tableName), "destroy", resp))

CountStep(s, tableName, resp) ==
  IF ~Truthy(Get(s.models, tableName))
  THEN Step(s, Throw(TableNotFound(tableName), <<>>, 0))
  ELSE TryCatchRethrow(s, Invoke(Get(s.models, tableName), "count", resp))

\* query: no table lookup, one sequelize.query call.
QueryStep(s, resp) ==
  TryCatchRethrow(s,
    [ok |-> resp.ok,
     value |-> IF resp.ok THEN EngineValue("query") ELSE Undefined,
     error |-> resp.error,
     calls |-> <<EngineCall(SequelizeTarget, "query")>>])

(***************************************************************************)
(* Lookups                                                                 *)
(***************************************************************************)
\* Property read handle[prop] for the two properties getTableInfo reads.
Prop(handle, prop) ==
  IF handle.kind = "model"
  THEN (IF prop = "rawAttributes" THEN handle.rawAttributes ELSE handle.associations)
  ELSE Undefined

GetTableInfoStep(s, tableName) ==
  IF ~Truthy(Get(s.models, tableName))
  THEN Step(s, Return(Null, <<>>, 0))
  ELSE Step(s, Return([kind |-> "tableInfo", tableName |-> tableName,
                       attributes |-> Prop(Get(s.models, tableName), "rawAttributes"),
                       associations |-> Prop(Get(s.models, tableName), "associations")],
                      <<>>, 0))

\* The ascending sequence of the numbers in a finite set.
RECURSIVE SortedSeq(_)
SortedSeq(S) ==
  IF S = {} THEN <<>>
  ELSE LET lo == CHOOSE x \in S : \A y \in S : x <= y
       IN <<lo>> \o SortedSeq(S \ {lo})

NameOfIndex(i) == CHOOSE n \in IndexNames : IndexValue(n) = i
IsWord(n) == n \notin IndexNames

\* Object.keys(obj) on an object whose own string keys were created in the
\* order ks: the array-index keys in ascending numeric order, then the other
\* keys in creation order.
ObjectKeys(ks) ==
  LET idx == SortedSeq({IndexValue(ks[i]) : i \in {j \in DOMAIN ks : ks[j] \in IndexNames}})
  IN [i \in DOMAIN idx |-> NameOfIndex(idx[i])] \o SelectSeq(ks, IsWord)

GetTablesStep(s) == Step(s, Return(Arr(ObjectKeys(s.keys)), <<>>, 0))

GetModelStep(s, tableName) == Step(s, Return(Get(s.models, tableName), <<>>, 0))

GetSequelizeStep(s) == Step(s, Return([kind |-> "sequelize"], <<>>, 0))

(***************************************************************************)
(* Actions                                                                 *)
(***************************************************************************)
\* The record kept of the last call.
\* engine: whether the call reached the engine, and what the engine answered.
NoResponse == [called |-> FALSE, ok |-> TRUE, error |-> NoError]
Last(op, table, schema, resp, r) ==
  [op |-> op, table |-> table, schema |-> schema, ret |-> r.ret,
   engine |-> IF r.ret.calls = <<>> THEN NoResponse
              ELSE [called |-> TRUE, ok |-> resp.ok, error |-> resp.error]]

Apply(op, table, schema, resp, r) ==
  /\ models' = r.models
  /\ keys' = r.keys
  /\ isConnected' = r.isConnected
  /\ defineCount' = r.defineCount
  /\ last' = Last(op, table, schema, resp, r)
  /\ UNCHANGED <<rows, pending>>

NoSchema == EmptyObject

\* Bounds of the row-level and of the interleaved specifications.
MaxRows == 3
MaxPage == 3
MaxPageSize == 2
MaxCallers == 2

\* The storage names a define call of the model can bind a handle to.
StorageNames == {ToLowerCase(t) : t \in TableNames} \cup {"custom"}
\* The asynchronous callers (tasks of the event loop), and a caller that is
\* not inside a call.
Callers == 1..MaxCallers
Idle == [kind |-> "idle"]

Init ==
  /\ models = EmptyObject
  /\ keys = <<>>
  /\ isConnected = FALSE
  /\ defineCount = 0
  /\ firstCall = EmptyObject
  /\ last = [op |-> "new", table |-> "", schema |-> NoSchema,
             ret |-> Return(Undefined, <<>>, 0), engine |-> NoResponse]
  /\ rows = [n \in StorageNames |-> <<>>]
  /\ pending = [c \in Callers |-> Idle]

Connect ==
  \E resp \in EngineResponses :
    /\ Apply("connect", "", NoSchema, resp, ConnectStep(This, resp))
    /\ UNCHANGED firstCall

CreateTable ==
  \E tableName \in TableNames, schema \in Schemas, options \in OptionsSet :
    LET r == CreateTableStep(This, tableName, schema, options) IN
    /\ r.defineCount <= MaxTables
    /\ Apply("createTable", tableName, schema, OkResponse, r)
    /\ firstCall' =
         IF tableName \in DOMAIN firstCall THEN firstCall
         ELSE Put(firstCall, tableName,
                  [schema |-> IF r.ret.value.kind = "model" THEN schema ELSE NoSchema,
                   result |-> r.ret.value])

SyncTables ==
  \E force \in BOOLEAN, resp \in EngineResponses :
    /\ Apply("syncTables", "", NoSchema, resp, SyncTablesStep(This, force, resp))
    /\ UNCHANGED firstCall

Close ==
  \E resp \in EngineResponses :
    /\ Apply("close", "", NoSchema, resp, CloseStep(This, resp))
    /\ UNCHANGED firstCall

Insert ==
  \E tableName \in TableNames, resp \in EngineResponses :
    /\ Apply("insert", tableName, NoSchema, resp, InsertStep(This, tableName, resp))
    /\ UNCHANGED firstCall

InsertMany ==
  \E tableName \in TableNames, resp \in EngineResponses :
    /\ Apply("insertMany", tableName, NoSchema, resp, InsertManyStep(This, tableName, resp))
    /\ UNCHANGED firstCall

Find ==
  \E tableName \in TableNames, resp \in EngineResponses :
    /\ Apply("find", tableName, NoSchema, resp, FindStep(This, tableName, resp))
    /\ UNCHANGED firstCall

FindOne ==
  \E tableName \in TableNames, resp \in EngineResponses :
    /\ Apply("findOne", tableName, NoSchema, resp, FindOneStep(This, tableName, resp))
    /\ UNCHANGED firstCall

FindById ==
  \E tableName \in TableNames, resp \in EngineResponses :
    /\ Apply("findById", tableName, NoSchema, resp, FindByIdStep(This, tableName, resp))
    /\ UNCHANGED firstCall

Update ==
  \E tableName \in TableNames, resp \in EngineResponses :
    /\ Apply("update", tableName, NoSchema, resp, UpdateStep(This, tableName, resp))
    /\ UNCHANGED firstCall

Delete ==
  \E tableName \in TableNames, resp \in EngineResponses :
    /\ Apply("delete", tableName, NoSchema, resp, DeleteStep(This, tableName, resp))
    /\ UNCHANGED firstCall

Count ==
  \E tableName \in TableNames, resp \in EngineResponses :
    /\ Apply("count", tableName, NoSchema, resp, CountStep(This, tableName, resp))
    /\ UNCHANGED firstCall

Query ==
  \E resp \in EngineResponses :
    /\ Apply("query", "", NoSchema, resp, QueryStep(This, resp))
    /\ UNCHANGED firstCall

GetTableInfo ==
  \E tableName \in TableNames :
    /\ Apply("getTableInfo", tableName, NoSchema, OkResponse, GetTableInfoStep(This, tableName))
    /\ UNCHANGED firstCall

GetTables ==
  /\ Apply("getTables", "", NoSchema, OkResponse, GetTablesStep(This))
  /\ UNCHANGED firstCall

GetModel ==
  \E tableName \in TableNames :
    /\ Apply("getModel", tableName, NoSchema, OkResponse, GetModelStep(This, tableName))
    /\ UNCHANGED firstCall

GetSequelize ==
  /\ Apply("getSequelize", "", NoSchema, OkResponse, GetSequelizeStep(This))
  /\ UNCHANGED firstCall

Next ==
  \/ Connect
  \/ CreateTable
  \/ SyncTables
  \/ Insert
  \/ InsertMany
  \/ Find
  \/ FindOne
  \/ FindById
  \/ Update
  \/ Delete
  \/ Count
  \/ Query
  \/ GetTableInfo
  \/ GetTables
  \/ Close
  \/ GetSequelize
  \/ GetModel

Spec == Init /\ [][Next]_vars

(***************************************************************************)
(* Row-level model of insert, update, delete                               *)
(*                                                                         *)
(* Spec treats the engine's answers as opaque values and never looks into  *)
(* the engine's tables. RowSpec follows one table, "User", with the rows   *)
(* the engine keeps for it and with the data, where and options arguments  *)
(* of the calls.                                                           *)
(***************************************************************************)
Num(n) == [kind |-> "number", n |-> n]
\* The values of the column v, the records a caller inserts or sets, and the
\* where arguments: {} (every row) or {v: x}.
Values == {1, 2}
DataSet == {[v |-> x] : x \in Values}
Wheres == {EmptyObject} \cup {[v |-> x] : x \in Values}
\* The options arguments of update and delete: none, or one with a where of
\* its own (UpdateOptions declares where as a required member).
CrudOptionsSet == {EmptyObject, [where |-> EmptyObject], [where |-> [v |-> 2]]}

\* The engine's evaluation of an exact-match where object on a row.
Matches(row, w) == \A f \in DOMAIN w : row[f] = w[f]
MatchCount(tbl, w) == Cardinality({i \in DOMAIN tbl : Matches(tbl[i], w)})
\* Model.update(data, {where}) and Model.destroy({where}) on the rows of a table.
EngineUpdate(tbl, data, w) ==
  [i \in DOMAIN tbl |-> IF Matches(tbl[i], w) THEN Spread(tbl[i], data) ELSE tbl[i]]
EngineDestroy(tbl, w) ==
  LET Keep(row) == ~Matches(row, w) IN SelectSeq(tbl, Keep)

\* An engine call with the options object it receives.
EngineCallWith(target, method, options) ==
  [target |-> target, method |-> method, options |-> options]
\* The object literal { where, ...options } of update and delete.
WhereOptions(where, options) == Spread([where |-> where], options)

\* A step of the row-level model: the fields, the engine's tables, the result.
RowStep(s, tbls, ret) == [step |-> Step(s, ret), rows |-> tbls]
\* The same for a handle that is not a model class, or an engine failure.
RowTry(s, tbls, r) == [step |-> TryCatchRethrow(s, r), rows |-> tbls]

InsertRowStep(s, tbls, tableName, data, resp) ==
  LET target == Get(s.models, tableName) IN
  IF ~Truthy(target)
  THEN RowStep(s, tbls, Throw(TableNotFound(tableName), <<>>, 0))
  ELSE IF target.kind # "model" \/ ~resp.ok
  THEN RowTry(s, tbls, Invoke(target, "create", resp))
  ELSE LET st == target.options.tableName IN
       RowStep(s, [tbls EXCEPT ![st] = Append(@, data)],
               Return(data, <<EngineCall(ModelTarget(target), "create")>>, 0))

UpdateRowsStep(s, tbls, tableName, data, where, options, resp) ==
  LET target == Get(s.models, tableName) IN
  IF ~Truthy(target)
  THEN RowStep(s, tbls, Throw(TableNotFound(tableName), <<>>, 0))
  ELSE IF target.kind # "model"
  THEN RowTry(s, tbls, Invoke(target, "update", resp))
  ELSE LET st == target.options.tableName
           opts == WhereOptions(where, options)
           calls == <<EngineCallWith(ModelTarget(target), "update", opts)>>
       IN IF resp.ok
          THEN RowStep(s, [tbls EXCEPT ![st] = EngineUpdate(@, data, opts.where)],
                       Return(Num(MatchCount(tbls[st], opts.where)), calls, 0))
          ELSE RowStep(s, tbls, Throw(resp.error, calls, 1))

DeleteRowsStep(s, tbls, tableName, where, options, resp) ==
  LET target == Get(s.models, tableName) IN
  IF ~Truthy(target)
  THEN RowStep(s, tbls, Throw(TableNotFound(tableName), <<>>, 0))
  ELSE IF target.kind # "model"
  THEN RowTry(s, tbls, Invoke(target, "destroy", resp))
  ELSE LET st == target.options.tableName
           opts == WhereOptions(where, options)
           calls == <<EngineCallWith(ModelTarget(target), "destroy", opts)>>
       IN IF resp.ok
          THEN RowStep(s, [tbls EXCEPT ![st] = EngineDestroy(@, opts.where)],
                       Return(Num(MatchCount(tbls[st], opts.where)), calls, 0))
          ELSE RowStep(s, tbls, Throw(resp.error, calls, 1))

\* db.searchPaginated(...): class Database declares no member of that name,
\* so the property read yields undefined and the call raises a TypeError.
SearchPaginatedStep(s, tableName, where, page, pageSize) ==
  Step(s, Throw(NotAFunction("searchPaginated"), <<>>, 0))

\* The record kept of a call of the row-level model, with its arguments.
RowLast(op, table, resp, ret, args) ==
  [op |-> op, table |-> table, schema |-> NoSchema, ret |-> ret,
   engine |-> IF ret.calls = <<>> THEN NoResponse
              ELSE [called |-> TRUE, ok |-> resp.ok, error |-> resp.error],
   args |-> args]

RowApply(op, table, resp, r, args) ==
  /\ models' = r.step.models
  /\ keys' = r.step.keys
  /\ isConnected' = r.step.isConnected
  /\ defineCount' = r.step.defineCount
  /\ last' = RowLast(op, table, resp, r.step.ret, args)
  /\ rows' = r.rows
  /\ UNCHANGED <<firstCall, pending>>

\* createTable("User", schema, options).
CreateUserTable ==
  \E schema \in Schemas, options \in OptionsSet :
    LET r == CreateTableStep(This, "User", schema, options) IN
    /\ r.defineCount <= MaxTables
    /\ Apply("createTable", "User", schema, OkResponse, r)
    /\ firstCall' =
         IF "User" \in DOMAIN firstCall THEN firstCall
         ELSE Put(firstCall, "User", [schema |-> schema, result |-> r.ret.value])

InsertRow ==
  \E data \in DataSet, resp \in EngineResponses :
    /\ \A n \in StorageNames : Len(rows[n]) < MaxRows
    /\ RowApply("insert", "User", resp, InsertRowStep(This, rows, "User", data, resp),
                [data |-> data])

UpdateRows ==
  \E data \in DataSet, where \in Wheres, options \in CrudOptionsSet, resp \in EngineResponses :
    RowApply("update", "User", resp,
             UpdateRowsStep(This, rows, "User", data, where, options, resp),
             [data |-> data, where |-> where, options |-> options])

DeleteRows ==
  \E where \in Wheres, options \in CrudOptionsSet, resp \in EngineResponses :
    RowApply("delete", "User", resp,
             DeleteRowsStep(This, rows, "User", where, options, resp),
             [where |-> where, options |-> options])

SearchPaginated ==
  \E where \in Wheres, page \in 0..MaxPage, pageSize \in 0..MaxPageSize :
    RowApply("searchPaginated", "User", OkResponse,
             [step |-> SearchPaginatedStep(This, "User", where, page, pageSize), rows |-> rows],
             [where |-> where, page |-> page, pageSize |-> pageSize])

RowNext ==
  \/ CreateUserTable
  \/ InsertRow
  \/ UpdateRows
  \/ DeleteRows
  \/ SearchPaginated

RowSpec == Init /\ [][RowNext]_vars

(***************************************************************************)
(* Interleaved callers                                                     *)
(*                                                                         *)
(* Spec runs every call to completion. AsyncSpec splits the async method   *)
(* insert at its await: the part before it runs when the caller makes the  *)
(* call, the part after it when the engine has answered, and calls of      *)
(* other callers run in between. createTable is a synchronous method and   *)
(* runs in one piece. createTable is called without an options argument.   *)
(***************************************************************************)
Suspended(op, table, target) ==
  [kind |-> "suspended", op |-> op, table |-> table, target |-> target]

\* insert up to its await: the registry check, then the member call
\* this.models[tableName].create(...), whose receiver is read before the await.
InsertStart(s, tableName) ==
  IF ~Truthy(Get(s.models, tableName))
  THEN [done |-> TRUE, ret |-> Throw(TableNotFound(tableName), <<>>, 0)]
  ELSE [done |-> FALSE,
        ret |-> Return(Undefined,
                       Invoke(Get(s.models, tableName), "create", OkResponse).calls, 0),
        suspended |-> Suspended("insert", tableName, Get(s.models, tableName))]
\* insert from its await on: the result, or the catch block.
InsertResume(s, susp, resp) ==
  TryCatchRethrow(s, Invoke(susp.target, "create", resp))

AsyncCreateTable ==
  \E c \in Callers, tableName \in TableNames, schema \in Schemas :
    LET r == CreateTableStep(This, tableName, schema, EmptyObject) IN
    /\ pending[c] = Idle
    /\ r.defineCount <= MaxTables
    /\ Apply("createTable", tableName, schema, OkResponse, r)
    /\ firstCall' =
         IF tableName \in DOMAIN firstCall THEN firstCall
         ELSE Put(firstCall, tableName,
                  [schema |-> IF r.ret.value.kind = "model" THEN schema ELSE NoSchema,
                   result |-> r.ret.value])

StartInsert ==
  \E c \in Callers, tableName \in TableNames :
    LET st == InsertStart(This, tableName) IN
    /\ pending[c] = Idle
    /\ pending' = IF st.done THEN pending ELSE [pending EXCEPT ![c] = st.suspended]
    /\ last' = Last(IF st.done THEN "insert" ELSE "insertStart", tableName, NoSchema,
                    OkResponse, [ret |-> st.ret])
    /\ UNCHANGED <<models, keys, isConnected, defineCount, firstCall, rows>>

ResumeInsert ==
  \E c \in Callers, resp \in EngineResponses :
    /\ pending[c].kind = "suspended"
    /\ pending[c].op = "insert"
    /\ LET r == InsertResume(This, pending[c], resp) IN
       /\ models' = r.models
       /\ keys' = r.keys
       /\ isConnected' = r.isConnected
       /\ defineCount' = r.defineCount
       /\ last' = Last("insert", pending[c].table, NoSchema, resp, r)
    /\ pending' = [pending EXCEPT ![c] = Idle]
    /\ UNCHANGED <<firstCall, rows>>

AsyncNext ==
  \/ AsyncCreateTable
  \/ StartInsert
  \/ ResumeInsert

AsyncSpec == Init /\ [][AsyncNext]_vars

(***************************************************************************)
(* Properties                                                              *)
(***************************************************************************)
\* C1: registration is idempotent. A createTable call on a name that an
\* earlier createTable call was already made on returns the very value the
\* first call returned, makes no engine call (no second define), changes no
\* field of the registry, and the handle registered under the name still
\* carries the schema built from the first call's schema, whatever schema
\* the later call passes.
C1_RegistrationIdempotent ==
  [][(last'.op = "createTable" /\ last'.table \in DOMAIN firstCall) =>
       LET t == last'.table
           first == firstCall[t]
       IN /\ last'.ret.outcome = "return"
          /\ last'.ret.value = first.result
          /\ last'.ret.calls = <<>>
          /\ models' = models /\ keys' = keys /\ defineCount' = defineCount
          /\ Get(models', t) = first.result
          /\ (first.result.kind = "model" =>
                /\ t \in DOMAIN models'
                /\ models'[t].rawAttributes = Spread(SystemDefaults, first.schema))]_vars

\* C1 witness: a second createTable on a registered name with a schema other
\* than the first one has returned without a define call.
C1_Witness ==
  /\ last.op = "createTable"
  /\ last.table \in DOMAIN models
  /\ last.ret.calls = <<>>
  /\ last.schema # firstCall[last.table].schema

\* C2: on first registration the schema handed to sequelize.define has the
\* field set {id, createdAt, updatedAt} united with the caller's field names;
\* every caller field carries the caller's descriptor, also one named like a
\* system field, and each system field the caller left out carries its
\* system default descriptor.
C2_SchemaMerge ==
  (last.op = "createTable" /\ last.ret.calls # <<>>) =>
    LET call == last.ret.calls[1]
        a == call.attributes
        sch == last.schema
    IN /\ Len(last.ret.calls) = 1
       /\ call.method = "define"
       /\ DOMAIN a = {"id", "createdAt", "updatedAt"} \cup DOMAIN sch
       /\ \A f \in DOMAIN sch : a[f] = sch[f]
       /\ "id" \notin DOMAIN sch => a["id"] = "INTEGER primaryKey autoIncrement"
       /\ "createdAt" \notin DOMAIN sch => a["createdAt"] = "DATE defaultValue NOW"
       /\ "updatedAt" \notin DOMAIN sch => a["updatedAt"] = "DATE defaultValue NOW"
       /\ last.ret.value.rawAttributes = a

\* C2 witness: a table was first registered with a schema that declares its
\* own id and createdAt next to a field of its own.
C2_Witness ==
  /\ last.op = "createTable"
  /\ last.ret.calls # <<>>
  /\ {"id", "createdAt", "username"} \subseteq DOMAIN last.schema
  /\ last.ret.calls[1].attributes["id"] = "STRING"
  /\ last.ret.calls[1].attributes["updatedAt"] = "DATE defaultValue NOW"

\* The table-addressed operations, and those of them with a try/catch that
\* rethrows (query included).
TableOps == {"insert", "insertMany", "find", "findOne", "findById", "update", "delete", "count"}
RethrowOps == TableOps \cup {"query"}
EngineFailed(l) == l.engine.called /\ ~l.engine.ok

\* C3: every table-addressed operation called with a table name that is not
\* in the registry fails with the table-not-found error and makes no engine
\* call.
C3_UnregisteredTableFails ==
  (last.op \in TableOps /\ last.table \notin DOMAIN models) =>
    /\ last.ret.outcome = "throw"
    /\ last.ret.error = TableNotFound(last.table)
    /\ last.ret.calls = <<>>

\* C4: connect never throws. When authenticate succeeds it sets the state to
\* connected and returns true; when authenticate fails it returns false,
\* reports one diagnostic and leaves the connection state as it was. The
\* registry is not touched either way.
C4_ConnectNeverThrows ==
  [][last'.op = "connect" =>
       /\ last'.ret.outcome = "return"
       /\ last'.engine.called
       /\ last'.ret.calls = <<EngineCall(SequelizeTarget, "authenticate")>>
       /\ last'.engine.ok =>
            (last'.ret.value = Bool(TRUE) /\ isConnected' = TRUE /\ last'.ret.diags = 0)
       /\ ~last'.engine.ok =>
            (last'.ret.value = Bool(FALSE) /\ isConnected' = isConnected /\ last'.ret.diags = 1)
       /\ models' = models /\ keys' = keys]_vars

\* C4 witness: a failed connect from the initial, disconnected state has
\* returned false.
C4_Witness ==
  /\ last.op = "connect"
  /\ EngineFailed(last)
  /\ last.ret.value = Bool(FALSE)
  /\ ~isConnected

\* C5 as stated: for every operation other than connect that calls the
\* engine, an engine failure makes the operation fail towards the caller.
C5_OnlyConnectSwallows ==
  (last.op \in RethrowOps \cup {"syncTables", "close"} /\ EngineFailed(last)) =>
    last.ret.outcome = "throw"

\* C5 amended: connect, syncTables and close turn an engine failure into a
\* normal return (false, false, and no value); for insert, insertMany, find,
\* findOne, findById, update, delete, count and query an engine failure makes
\* the operation fail towards the caller.
C5_SwallowingOperations ==
  EngineFailed(last) =>
    /\ last.op \in {"connect", "syncTables"} =>
         (last.ret.outcome = "return" /\ last.ret.value = Bool(FALSE))
    /\ last.op = "close" =>
         (last.ret.outcome = "return" /\ last.ret.value = Undefined)
    /\ last.op \in RethrowOps => last.ret.outcome = "throw"
    /\ last.op \in RethrowOps \cup {"connect", "syncTables", "close"}

\* C5 witness: a syncTables whose engine call failed has returned false.
C5_Witness ==
  /\ last.op = "syncTables"
  /\ EngineFailed(last)
  /\ last.ret.outcome = "return"
  /\ last.ret.value = Bool(FALSE)

\* C6 as stated: after close the connection state is disconnected, from any
\* prior state and also when the engine's close attempt fails.
C6_CloseAlwaysDisconnects ==
  last.op = "close" => ~isConnected

\* C6 amended: close never throws; when the engine's close attempt succeeds
\* the state is disconnected afterwards, from the connected and from the
\* disconnected state alike; when the attempt fails, one diagnostic is
\* reported and the connection state is left as it was.
C6_CloseDisconnectsOnSuccess ==
  [][last'.op = "close" =>
       /\ last'.ret.outcome = "return"
       /\ last'.ret.calls = <<EngineCall(SequelizeTarget, "close")>>
       /\ last'.engine.ok => (isConnected' = FALSE /\ last'.ret.diags = 0)
       /\ ~last'.engine.ok => (isConnected' = isConnected /\ last'.ret.diags = 1)
       /\ models' = models /\ keys' = keys]_vars

\* C6 witness: a close whose engine call failed has returned while the state
\* is still connected.
C6_Witness ==
  /\ last.op = "close"
  /\ EngineFailed(last)
  /\ last.ret.outcome = "return"
  /\ isConnected

\* C7: when the engine raises an error during insert, insertMany, find,
\* findOne, findById, update, delete, count or query, the operation has made
\* exactly one engine call, emits exactly one diagnostic and fails with the
\* very error the engine raised; the registry and the connection state are
\* unchanged.
C7_EngineErrorPropagates ==
  [][(last'.op \in RethrowOps /\ EngineFailed(last')) =>
       /\ Len(last'.ret.calls) = 1
       /\ last'.ret.diags = 1
       /\ last'.ret.outcome = "throw"
       /\ last'.ret.error = last'.engine.error
       /\ last'.ret.error.kind = "EngineError"
       /\ models' = models /\ keys' = keys /\ defineCount' = defineCount
       /\ isConnected' = isConnected]_vars

\* C7 witness: an update on a registered table has failed with the engine's
\* error while the state is connected.
C7_Witness ==
  /\ last.op = "update"
  /\ last.table \in DOMAIN models
  /\ EngineFailed(last)
  /\ last.ret.outcome = "throw"
  /\ isConnected

\* Two steps agree in everything but the connection flag they were given.
SameButConnection(a, b) ==
  /\ a.models = b.models /\ a.keys = b.keys /\ a.defineCount = b.defineCount
  /\ a.ret = b.ret
  /\ a.isConnected /\ ~b.isConnected

\* C8: no registry or CRUD operation looks at the connection state. In every
\* reachable registry, for every input and engine answer, createTable,
\* getModel, getTables, getTableInfo and each CRUD operation has the same
\* result, registry effect and engine calls in the disconnected state as in
\* the connected state, and passes the connection state on as it was.
C8_NoConnectionPrecondition ==
  LET on == [This EXCEPT !.isConnected = TRUE]
      off == [This EXCEPT !.isConnected = FALSE]
  IN /\ SameButConnection(GetTablesStep(on), GetTablesStep(off))
     /\ \A t \in TableNames :
          /\ SameButConnection(GetModelStep(on, t), GetModelStep(off, t))
          /\ SameButConnection(GetTableInfoStep(on, t), GetTableInfoStep(off, t))
          /\ \A sch \in Schemas, o \in OptionsSet :
               SameButConnection(CreateTableStep(on, t, sch, o), CreateTableStep(off, t, sch, o))
          /\ \A resp \in EngineResponses :
               /\ SameButConnection(InsertStep(on, t, resp), InsertStep(off, t, resp))
               /\ SameButConnection(InsertManyStep(on, t, resp), InsertManyStep(off, t, resp))
               /\ SameButConnection(FindStep(on, t, resp), FindStep(off, t, resp))
               /\ SameButConnection(FindOneStep(on, t, resp), FindOneStep(off, t, resp))
               /\ SameButConnection(FindByIdStep(on, t, resp), FindByIdStep(off, t, resp))
               /\ SameButConnection(UpdateStep(on, t, resp), UpdateStep(off, t, resp))
               /\ SameButConnection(DeleteStep(on, t, resp), DeleteStep(off, t, resp))
               /\ SameButConnection(CountStep(on, t, resp), CountStep(off, t, resp))

\* C8 witness: an insert on a registered table has reached the engine and
\* returned its record while the state is disconnected.
C8_Witness ==
  /\ last.op = "insert"
  /\ last.table \in DOMAIN models
  /\ ~isConnected
  /\ last.engine.called
  /\ last.ret.outcome = "return"

\* C9: getTables returns the registered names in the order of their first
\* registration, without duplicates.
C9_GetTablesInsertionOrder ==
  last.op = "getTables" =>
    /\ last.ret.outcome = "return"
    /\ last.ret.value = Arr(keys)
    /\ \A i, j \in DOMAIN keys : keys[i] = keys[j] => i = j

\* C10: getModel and getTableInfo never fail and change nothing; for an
\* unregistered name they return undefined, respectively null; for a
\* registered name getModel returns the handle createTable returned and
\* getTableInfo that name with the handle's attributes and associations.
C10_LookupsPure ==
  [][last'.op \in {"getModel", "getTableInfo"} =>
       LET t == last'.table IN
       /\ last'.ret.outcome = "return"
       /\ last'.ret.calls = <<>>
       /\ models' = models /\ keys' = keys /\ defineCount' = defineCount
       /\ isConnected' = isConnected
       /\ (t \notin DOMAIN models) =>
            last'.ret.value = (IF last'.op = "getModel" THEN Undefined ELSE Null)
       /\ (t \in DOMAIN models /\ last'.op = "getModel") =>
            (last'.ret.value = models[t] /\ last'.ret.value = firstCall[t].result)
       /\ (t \in DOMAIN models /\ last'.op = "getTableInfo") =>
            last'.ret.value = [kind |-> "tableInfo", tableName |-> t,
                               attributes |-> models[t].rawAttributes,
                               associations |-> models[t].associations]]_vars

\* ceil(total / pageSize) for pageSize >= 1.
CeilDiv(total, pageSize) == (total + pageSize - 1) \div pageSize
Min(a, b) == IF a <= b THEN a ELSE b

\* C11: searchPaginated(table, cond, page, pageSize) on a registered table,
\* with page and pageSize positive, returns total = the number of rows that
\* match cond, pages = ceil(total / pageSize), hasMore = (page < pages) and
\* data = the matching rows from offset (page - 1) * pageSize, at most
\* pageSize of them; with a page or pageSize that is not positive it fails
\* with a translation error.
C11_SearchPaginated ==
  (last.op = "searchPaginated" /\ last.table \in DOMAIN models) =>
    LET a == last.args
        st == models[last.table].options.tableName
        Hit(row) == Matches(row, a.where)
        matching == SelectSeq(rows[st], Hit)
        total == Len(matching)
        pages == CeilDiv(total, a.pageSize)
        offset == (a.page - 1) * a.pageSize
    IN IF a.page >= 1 /\ a.pageSize >= 1
       THEN /\ last.ret.outcome = "return"
            /\ last.ret.value =
                 [kind |-> "page",
                  data |-> SubSeq(matching, offset + 1, Min(offset + a.pageSize, total)),
                  total |-> total, page |-> a.page, pages |-> pages,
                  hasMore |-> a.page < pages]
       ELSE /\ last.ret.outcome = "throw"
            /\ last.ret.error.kind = "TranslationError"

\* C12 as stated: on first registration the handle is bound under the
\* storage name tableName lower-cased, for every tableName and every options
\* argument, and the registry key is tableName as given.
C12_StorageNameLowerCased ==
  (last.op = "createTable" /\ last.ret.calls # <<>>) =>
    /\ last.ret.calls[1].options.tableName = ToLowerCase(last.table)
    /\ last.table \in DOMAIN models
    /\ models[last.table].options.tableName = ToLowerCase(last.table)

\* C12 amended: on first registration the handle is bound under the storage
\* name options.tableName when the options argument carries a tableName, and
\* under tableName lower-cased otherwise; the model name and the registry key
\* are tableName as given. Checked for every input of createTable in every
\* reachable registry.
C12_StorageNameDefault ==
  \A t \in TableNames, sch \in Schemas, o \in OptionsSet :
    LET r == CreateTableStep(This, t, sch, o)
        st == IF "tableName" \in DOMAIN o THEN o["tableName"] ELSE ToLowerCase(t)
    IN r.ret.calls # <<>> =>
         /\ Len(r.ret.calls) = 1
         /\ r.ret.calls[1].method = "define"
         /\ r.ret.calls[1].modelName = t
         /\ r.ret.calls[1].options["tableName"] = st
         /\ t \notin DOMAIN models
         /\ DOMAIN r.models = DOMAIN models \cup {t}
         /\ r.keys = Append(keys, t)
         /\ r.models[t].options["tableName"] = st
         /\ r.ret.value = r.models[t]

\* C12 witness: "User" was first registered without a tableName option and
\* its handle is bound under "user", the registry key being "User".
C12_Witness ==
  /\ last.op = "createTable"
  /\ last.table = "User"
  /\ last.ret.calls # <<>>
  /\ last.ret.calls[1].options["tableName"] = "user"
  /\ "User" \in DOMAIN models
  /\ "user" \notin DOMAIN models

\* C13: update and delete on a registered table hand the engine the caller's
\* where argument as the predicate, whatever the options argument contains:
\* exactly the rows matching where are changed (respectively removed), the
\* other rows and the other tables are untouched, and the number returned is
\* the count of the rows matching where (0, without error, when none does).
C13_WhereArgumentDecides ==
  [][(/\ last'.op \in {"update", "delete"}
      /\ last'.table \in DOMAIN models
      /\ last'.engine.called /\ last'.engine.ok) =>
       LET a == last'.args
           st == models[last'.table].options.tableName
           old == rows[st]
           new == rows'[st]
           Keep(row) == ~Matches(row, a.where)
       IN /\ last'.ret.calls[1].options["where"] = a.where
          /\ last'.ret.outcome = "return"
          /\ last'.ret.value = Num(MatchCount(old, a.where))
          /\ last'.op = "update" =>
               /\ Len(new) = Len(old)
               /\ \A i \in DOMAIN old :
                    new[i] = IF Matches(old[i], a.where) THEN Spread(old[i], a.data) ELSE old[i]
          /\ last'.op = "delete" => new = SelectSeq(old, Keep)
          /\ \A n \in StorageNames \ {st} : rows'[n] = rows[n]]_vars

\* C14: the registry only grows and its entries are stable. In every step of
\* the public interface each registered name stays registered with the same
\* handle, which is the handle its first createTable call returned; a step
\* that changes the registry is a createTable on a name that was not
\* registered, and it adds exactly that name, after the names already there.
C14_RegistryOnlyGrows ==
  [][/\ \A n \in DOMAIN models : n \in DOMAIN models' /\ models'[n] = models[n]
     /\ \A n \in DOMAIN models' :
          n \in DOMAIN firstCall' /\ models'[n] = firstCall'[n].result
     /\ (models' # models \/ keys' # keys) =>
          /\ last'.op = "createTable"
          /\ last'.table \notin DOMAIN models
          /\ DOMAIN models' = DOMAIN models \cup {last'.table}
          /\ keys' = Append(keys, last'.table)]_vars

\* C14 witness: after a successful close "User" is still registered with the
\* handle its first registration returned.
C14_Witness ==
  /\ last.op = "close"
  /\ last.engine.ok
  /\ "User" \in DOMAIN models
  /\ models["User"] = firstCall["User"].result

\* C15: registration is atomic with respect to interleaved asynchronous
\* callers. In every interleaving of createTable calls with inserts
\* suspended at their await, define is called only by the first
\* createTable call on a name, every createTable call on that name returns
\* the handle the first one returned, the registered handle carries the
\* first caller's schema, and no other step touches the registry or defines.
C15_RegistrationAtomic ==
  [][/\ last'.op = "createTable" =>
          LET t == last'.table IN
          /\ last'.ret.outcome = "return"
          /\ t \in DOMAIN firstCall =>
               (/\ last'.ret.calls = <<>>
                /\ last'.ret.value = firstCall[t].result
                /\ defineCount' = defineCount
                /\ models' = models)
          /\ last'.ret.calls # <<>> =>
               (/\ t \notin DOMAIN firstCall
                /\ Len(last'.ret.calls) = 1
                /\ last'.ret.calls[1].modelName = t
                /\ defineCount' = defineCount + 1)
          /\ t \in DOMAIN models' =>
               (/\ last'.ret.value = models'[t]
                /\ models'[t].rawAttributes = Spread(SystemDefaults, firstCall'[t].schema))
     /\ last'.op # "createTable" => (models' = models /\ defineCount' = defineCount)
     /\ defineCount' = Cardinality(DOMAIN models')]_vars

\* C15 witness: while a caller is suspended in an insert on a registered
\* table, another caller's createTable on that table, with a schema other
\* than the first one, has returned without a define call.
C15_Witness ==
  /\ last.op = "createTable"
  /\ last.table \in DOMAIN models
  /\ last.ret.calls = <<>>
  /\ last.schema # firstCall[last.table].schema
  /\ \E c \in Callers :
       /\ pending[c].kind = "suspended"
       /\ pending[c].op = "insert"
       /\ pending[c].table = last.table
====
